---- MODULE Spec2Model ----
(***************************************************************************)
(* The MCP `server` command of the CLI (packages/cli/src/commands/mcp/     *)
(* server.ts): the startup handler that registers one MCP endpoint per     *)
(* registry tool, and the endpoint callback that forwards a call to the    *)
(* tool and maps the outcome to a protocol response.                       *)
(*                                                                         *)
(* JavaScript strings are sequences of one-character strings, so that      *)
(* concatenation, quoting and containment are computed, not assumed.       *)
(* JavaScript values are records tagged with their kind in field t.        *)
(***************************************************************************)
EXTENDS Integers, Sequences, FiniteSets

VARIABLES pc, tools, version, serverInfo, i, endpoints, stderr, connected,
          steps, calls, signals

vars == <<pc, tools, version, serverInfo, i, endpoints, stderr, connected,
          steps, calls, signals>>

----------------------------------------------------------------------------
(* Bounds of the model *)

\* longest registry that createToolRegistry may return
MaxTools == 2
\* number of endpoint calls the transport delivers
MaxCalls == 2

----------------------------------------------------------------------------
(* JavaScript values *)

Undefined == [t |-> "undefined"]
Str(s) == [t |-> "string", v |-> s]
Num(n) == [t |-> "number", v |-> n]
\* an array literal: v is the sequence of its elements
Arr(items) == [t |-> "array", v |-> items]
\* a plain object: v is the sequence of its <<key, value>> properties in
\* insertion order
Obj(props) == [t |-> "object", v |-> props]
\* an instance of Error whose message is the string m
ErrorObj(m) == [t |-> "Error", v |-> m]
\* Object.create(null): an object with no toString/valueOf
NullProto == [t |-> "nullproto"]

\* o[k] for the objects of the model
Get(o, k) ==
    IF o.t = "object"
    THEN IF \E n \in 1..Len(o.v) : o.v[n][1] = k
         THEN o.v[CHOOSE n \in 1..Len(o.v) :
                    /\ o.v[n][1] = k
                    /\ \A m \in 1..(n-1) : o.v[m][1] # k][2]
         ELSE Undefined
    ELSE IF o.t = "Error" /\ k = <<"m", "e", "s", "s", "a", "g", "e">>
    THEN Str(o.v)
    ELSE Undefined

\* ToBoolean(v), as used by `||` and `if`
Truthy(v) ==
    CASE v.t = "undefined" -> FALSE
      [] v.t = "string" -> v.v # <<>>
      [] v.t = "number" -> v.v # 0
      [] OTHER -> TRUE

DigitChar == <<"0", "1", "2", "3", "4", "5", "6", "7", "8", "9">>

RECURSIVE Digits(_)
\* the decimal rendering of a natural number
Digits(n) ==
    IF n < 10 THEN <<DigitChar[n + 1]>>
    ELSE Digits(n \div 10) \o <<DigitChar[(n % 10) + 1]>>

RECURSIVE Escape(_)
\* JSON escaping of the characters of a string
Escape(s) ==
    IF s = <<>> THEN <<>>
    ELSE (IF Head(s) = "\"" THEN <<"\\", "\"">>
          ELSE IF Head(s) = "\\" THEN <<"\\", "\\">>
          ELSE <<Head(s)>>) \o Escape(Tail(s))

\* JSON's quoted form of a string
Quote(s) == <<"\"">> \o Escape(s) \o <<"\"">>

RECURSIVE JSONstringify(_), JSONelements(_), JSONproperties(_, _)
\* JSON.stringify(v): a string value, or undefined when v has no JSON form
JSONstringify(v) ==
    CASE v.t = "undefined" -> Undefined
      [] v.t = "string" -> Str(Quote(v.v))
      [] v.t = "number" -> Str(Digits(v.v))
      [] v.t = "array" -> Str(<<"[">> \o JSONelements(v.v) \o <<"]">>)
      [] v.t = "object" -> Str(<<"{">> \o JSONproperties(v.v, TRUE) \o <<"}">>)
      [] OTHER -> Str(<<"{", "}">>)

\* the elements of an array, comma separated; undefined renders as null
JSONelements(items) ==
    IF items = <<>> THEN <<>>
    ELSE LET h == JSONstringify(Head(items))
             txt == IF h.t = "undefined" THEN <<"n", "u", "l", "l">> ELSE h.v
         IN  txt \o (IF Tail(items) = <<>> THEN <<>> ELSE <<",">>)
                 \o JSONelements(Tail(items))

\* the properties of an object in insertion order; a property whose value is
\* undefined is left out
JSONproperties(props, first) ==
    IF props = <<>> THEN <<>>
    ELSE LET h == JSONstringify(Head(props)[2])
         IN  IF h.t = "undefined" THEN JSONproperties(Tail(props), first)
             ELSE (IF first THEN <<>> ELSE <<",">>)
                  \o Quote(Head(props)[1]) \o <<":">> \o h.v
                  \o JSONproperties(Tail(props), FALSE)

\* a completion of a JavaScript evaluation
Return(v) == [kind |-> "return", value |-> v]
Throw(v) == [kind |-> "throw", value |-> v]

RECURSIVE String(_), JoinElements(_)
\* String(v) and the conversion done by `${v}`: a completion, because the
\* conversion of an object without toString/valueOf throws a TypeError
String(v) ==
    CASE v.t = "undefined" -> Return(Str(<<"u", "n", "d", "e", "f", "i", "n", "e", "d">>))
      [] v.t = "string" -> Return(v)
      [] v.t = "number" -> Return(Str(Digits(v.v)))
      [] v.t = "array" -> JoinElements(v.v)
      [] v.t = "object" -> Return(Str(<<"[", "o", "b", "j", "e", "c", "t", " ", "O", "b", "j", "e", "c", "t", "]">>))
      [] v.t = "Error" ->
            Return(Str(IF v.v = <<>> THEN <<"E", "r", "r", "o", "r">> ELSE <<"E", "r", "r", "o", "r", ":", " ">> \o v.v))
      [] OTHER -> Throw(ErrorObj(<<"C", "a", "n", "n", "o", "t", " ", "c", "o", "n", "v", "e", "r", "t", " ", "o", "b", "j", "e", "c", "t", " ", "t", "o", " ", "p", "r", "i", "m", "i", "t", "i", "v", "e", " ", "v", "a", "l", "u", "e">>))

\* Array.prototype.toString: the elements' strings joined by commas
JoinElements(items) ==
    IF items = <<>> THEN Return(Str(<<>>))
    ELSE LET h == IF Head(items).t = "undefined" THEN Return(Str(<<>>))
                  ELSE String(Head(items))
             r == JoinElements(Tail(items))
         IN  IF h.kind = "throw" THEN h
             ELSE IF r.kind = "throw" THEN r
             ELSE Return(Str(h.value.v
                             \o (IF Tail(items) = <<>> THEN <<>> ELSE <<",">>)
                             \o r.value.v))

----------------------------------------------------------------------------
(* The collaborators' answers the model draws from *)

\* the tools a registry may hold: name, and description (a string, possibly
\* empty, or absent)
ToolPool ==
    { [name |-> <<"l", "s">>, description |-> Undefined],
      [name |-> <<"l", "s">>, description |-> Str(<<"L", "i", "s", "t", " ", "f", "i", "l", "e", "s">>)],
      [name |-> <<"c", "a", "t">>, description |-> Str(<<>>)] }

\* what toolRegistry.getAllTools() may return
Registries == UNION { [1..n -> ToolPool] : n \in 0..MaxTools }

\* what getVersion() may resolve to
Versions == { Undefined, Str(<<"0", ".", "9", ".", "1">>) }

\* the args a request may carry: absent, or a mapping
Args == { Undefined, Obj(<< <<<<"p", "a", "t", "h">>, Str(<<"/", "t", "m", "p">>)>> >>) }

\* a tool failure as a Result carries it
ToolError(m) == Obj(<< <<<<"m", "e", "s", "s", "a", "g", "e">>, Str(m)>> >>)

\* what invocation.execute() may resolve to: a Result with llmContent a
\* string, a Part, a Part[] or missing, with or without an error
Results ==
    { Obj(<< <<<<"l", "l", "m", "C", "o", "n", "t", "e", "n", "t">>, Str(<<"h", "e", "l", "l", "o">>)>> >>),
      Obj(<< <<<<"l", "l", "m", "C", "o", "n", "t", "e", "n", "t">>, Obj(<< <<<<"a">>, Num(1)>> >>)>> >>),
      Obj(<< <<<<"l", "l", "m", "C", "o", "n", "t", "e", "n", "t">>,
               Arr(<< Obj(<< <<<<"t", "e", "x", "t">>, Str(<<"s", "a", "y", " ", "\"", "h", "i", "\"">>)>> >>) >>)>> >>),
      Obj(<<>>),
      Obj(<< <<<<"l", "l", "m", "C", "o", "n", "t", "e", "n", "t">>, Str(<<"p", "a", "r", "t", "i", "a", "l">>)>>,
             <<<<"e", "r", "r", "o", "r">>, ToolError(<<"b", "a", "d", " ", "i", "n", "p", "u", "t">>)>> >>),
      Obj(<< <<<<"e", "r", "r", "o", "r">>, ToolError(<<"b", "a", "d", " ", "i", "n", "p", "u", "t">>)>> >>) }

\* what tool.build(args) may throw: an Error, a plain object that has a
\* message property, an object without toString
BuildThrows ==
    { ErrorObj(<<"b", "o", "o", "m">>), Obj(<< <<<<"m", "e", "s", "s", "a", "g", "e">>, Str(<<"b", "o", "o", "m">>)>> >>), NullProto }

\* what invocation.execute(signal) may throw before returning its promise
ExecuteThrows == { ErrorObj(<<"b", "o", "o", "m">>) }

\* what the promise of invocation.execute(signal) may reject with: a string
Rejections == { Str(<<"b", "o", "o", "m">>) }

----------------------------------------------------------------------------
(* serverCommand.handler: startup *)

ServerName == <<"c", "l", "a", "u", "d", "e", "-", "c", "o", "d", "e", "-", "g", "e", "m", "i", "n", "i", "-", "c", "l", "i", "-", "s", "e", "r", "v", "e", "r">>
FallbackVersion == <<"1", ".", "0", ".", "0">>
StartedLine == <<"C", "l", "a", "u", "d", "e", " ", "C", "o", "d", "e", " ", "G", "e", "m", "i", "n", "i", " ", "C", "L", "I", " ", "M", "C", "P", " ", "s", "e", "r", "v", "e", "r", " ", "s", "t", "a", "r", "t", "e", "d", " ", "o", "n", " ", "s", "t", "d", "i", "o">>

\* `version || '1.0.0'`
ServerVersion(v) == IF Truthy(v) THEN v.v ELSE FallbackVersion

\* `Registering MCP tool: ${tool.name}`
RegisteringLine(tool) == <<"R", "e", "g", "i", "s", "t", "e", "r", "i", "n", "g", " ", "M", "C", "P", " ", "t", "o", "o", "l", ":", " ">> \o tool.name

\* the empty object literal `{}`
EmptyObject == Obj(<<>>)

\* the description with `??` in place of `||`: an empty description is kept
EndpointDescriptionNullish(tool) ==
    IF tool.description.t # "undefined" THEN tool.description
    ELSE Str(<<"C", "l", "a", "u", "d", "e", " ", "C", "o", "d", "e", " ", "G", "e", "m", "i", "n", "i", " ", "C", "L", "I", " ">> \o tool.name \o <<" ", "t", "o", "o", "l">>)

\* `tool.description || `Claude Code Gemini CLI ${tool.name} tool``
EndpointDescription(tool) ==
    IF Truthy(tool.description) THEN tool.description
    ELSE Str(<<"C", "l", "a", "u", "d", "e", " ", "C", "o", "d", "e", " ", "G", "e", "m", "i", "n", "i", " ", "C", "L", "I", " ">> \o tool.name \o <<" ", "t", "o", "o", "l">>)

\* the callback closing over a loop variable shared by all iterations: every
\* endpoint runs the registry's last tool
EndpointForLastTool(tool, k) ==
    [name |-> tool.name,
     description |-> EndpointDescription(tool),
     inputSchema |-> Obj(<<>>),
     tool |-> Len(tools)]

\* what one iteration hands to server.registerTool: the name, the metadata
\* and the callback, which closes over the iteration's own `tool` (the
\* k-th tool of the registry)
EndpointFor(tool, k) ==
    [name |-> tool.name,
     description |-> EndpointDescription(tool),
     inputSchema |-> EmptyObject,
     tool |-> k]

\* McpServer.registerTool refuses a name that is already registered
AlreadyRegistered(eps, name) == \E n \in 1..Len(eps) : eps[n].name = name

\* the handler with the version resolved before the registry is created
NextStepVersionFirst(p) ==
    CASE p = "loadSettings" -> "loadCliConfig"
      [] p = "loadCliConfig" -> "getVersion"
      [] p = "getVersion" -> "createToolRegistry"
      [] p = "createToolRegistry" -> "newServer"

\* the straight-line part of the handler: the statement after each one
NextStep(p) ==
    CASE p = "loadSettings" -> "loadCliConfig"
      [] p = "loadCliConfig" -> "createToolRegistry"
      [] p = "createToolRegistry" -> "getVersion"
      [] p = "getVersion" -> "newServer"

\* the loop stopping one tool short
LoopTargetSkipsLast(k, ts) == IF k >= Len(ts) THEN "connect" ELSE "register"

\* `for (const tool of tools)`: with k-1 tools consumed, the loop body runs
\* for the k-th tool, or the loop is over and the handler goes on to connect
LoopTarget(k, ts) == IF k > Len(ts) THEN "connect" ELSE "register"

\* no closing diagnostic line
LogNothing(err) == err

\* console.error after server.connect resolved
LogStarted(err) == Append(err, StartedLine)

Step(op, arg) == [op |-> op, arg |-> arg]

\* a call slot before the transport delivered the call
Idle == [st |-> "idle"]

Init ==
    /\ pc = "loadSettings"
    /\ tools = <<>>
    /\ version = Undefined
    /\ serverInfo = <<>>
    /\ i = 1
    /\ endpoints = <<>>
    /\ stderr = <<>>
    /\ connected = FALSE
    /\ steps = <<>>
    /\ calls = [c \in 1..MaxCalls |-> Idle]
    /\ signals = <<>>

\* an awaited or called collaborator throws: the handler's promise rejects
Fails ==
    /\ pc' = "failed"
    /\ UNCHANGED <<tools, version, serverInfo, i, endpoints, stderr,
                   connected, steps, calls, signals>>

\* loadSettings(cwd)
LoadSettings ==
    /\ pc = "loadSettings"
    /\ \/ /\ pc' = NextStep(pc)
          /\ steps' = Append(steps, Step(pc, 0))
          /\ UNCHANGED <<tools, version, serverInfo, i, endpoints, stderr,
                         connected, calls, signals>>
       \/ Fails

\* await loadCliConfig(settings, sessionId, argv, { cwd })
LoadCliConfig ==
    /\ pc = "loadCliConfig"
    /\ \/ /\ pc' = NextStep(pc)
          /\ steps' = Append(steps, Step(pc, 0))
          /\ UNCHANGED <<tools, version, serverInfo, i, endpoints, stderr,
                         connected, calls, signals>>
       \/ Fails

\* await config.createToolRegistry(): the registry whose tools the loop
\* will read
CreateToolRegistry ==
    /\ pc = "createToolRegistry"
    /\ \/ /\ \E r \in Registries : tools' = r
          /\ pc' = NextStep(pc)
          /\ steps' = Append(steps, Step(pc, 0))
          /\ UNCHANGED <<version, serverInfo, i, endpoints, stderr,
                         connected, calls, signals>>
       \/ Fails

\* await getVersion()
GetVersion ==
    /\ pc = "getVersion"
    /\ \/ /\ \E v \in Versions : version' = v
          /\ pc' = NextStep(pc)
          /\ steps' = Append(steps, Step(pc, 0))
          /\ UNCHANGED <<tools, serverInfo, i, endpoints, stderr,
                         connected, calls, signals>>
       \/ Fails

\* new McpServer({ name, version }), toolRegistry.getAllTools() and the
\* loop's first test
NewServer ==
    /\ pc = "newServer"
    /\ \/ /\ serverInfo' = <<[name |-> ServerName,
                              version |-> ServerVersion(version)]>>
          /\ i' = 1
          /\ pc' = LoopTarget(1, tools)
          /\ steps' = Append(steps, Step(pc, 0))
          /\ UNCHANGED <<tools, version, endpoints, stderr, connected,
                         calls, signals>>
       \/ Fails

\* one iteration of the loop: the diagnostic line, then server.registerTool,
\* which throws on a name already registered
RegisterTool ==
    /\ pc = "register"
    /\ stderr' = Append(stderr, RegisteringLine(tools[i]))
    /\ IF AlreadyRegistered(endpoints, EndpointFor(tools[i], i).name)
       THEN /\ pc' = "failed"
            /\ UNCHANGED <<i, endpoints, steps>>
       ELSE /\ endpoints' = Append(endpoints, EndpointFor(tools[i], i))
            /\ i' = i + 1
            /\ pc' = LoopTarget(i + 1, tools)
            /\ steps' = Append(steps, Step(pc, i))
    /\ UNCHANGED <<tools, version, serverInfo, connected, calls, signals>>

\* new StdioServerTransport(), await server.connect(transport) and the
\* closing diagnostic line
Connect ==
    /\ pc = "connect"
    /\ \/ /\ connected' = TRUE
          /\ stderr' = LogStarted(stderr)
          /\ pc' = "done"
          /\ steps' = Append(steps, Step(pc, 0))
          /\ UNCHANGED <<tools, version, serverInfo, i, endpoints, calls,
                         signals>>
       \/ Fails

----------------------------------------------------------------------------
(* The endpoint callback *)

\* a response with isError: true
ErrorResponse(text) ==
    [content |-> <<[type |-> "text", text |-> text]>>, isError |-> TRUE]

\* a response without an isError field
TextResponse(text) == [content |-> <<[type |-> "text", text |-> text]>>]

\* the catch block: the message of an Error instance, String(error) of
\* anything else; a throw of String(error) leaves the callback
OnCatch(error) ==
    LET message == IF error.t = "Error" THEN Return(Str(error.v))
                   ELSE String(error)
    IN  IF message.kind = "throw" THEN message
        ELSE Return(ErrorResponse(Str(<<"I", "n", "t", "e", "r", "n", "a", "l", " ", "E", "r", "r", "o", "r", ":", " ">> \o message.value.v)))

\* the content serialized whatever its type
TextContentAlwaysJSON(llmContent) == JSONstringify(llmContent)

\* typeof result.llmContent === 'string' ? result.llmContent
\*                                       : JSON.stringify(result.llmContent)
TextContent(llmContent) ==
    IF llmContent.t = "string" THEN llmContent ELSE JSONstringify(llmContent)

\* the try block looking at the content before the error
OnResultContentFirst(result) ==
    IF Get(result, <<"l", "l", "m", "C", "o", "n", "t", "e", "n", "t">>).t # "undefined"
    THEN Return(TextResponse(TextContent(Get(result, <<"l", "l", "m", "C", "o", "n", "t", "e", "n", "t">>))))
    ELSE LET message == String(Get(Get(result, <<"e", "r", "r", "o", "r">>), <<"m", "e", "s", "s", "a", "g", "e">>))
         IN  Return(ErrorResponse(Str(<<"E", "r", "r", "o", "r", ":", " ">> \o message.value.v)))

\* the try block after the await: the result's error first, else its content
OnResult(result) ==
    IF Truthy(Get(result, <<"e", "r", "r", "o", "r">>))
    THEN LET message == String(Get(Get(result, <<"e", "r", "r", "o", "r">>), <<"m", "e", "s", "s", "a", "g", "e">>))
         IN  IF message.kind = "throw" THEN OnCatch(message.value)
             ELSE Return(ErrorResponse(Str(<<"E", "r", "r", "o", "r", ":", " ">> \o message.value.v)))
    ELSE Return(TextResponse(TextContent(Get(result, <<"l", "l", "m", "C", "o", "n", "t", "e", "n", "t">>))))

\* `args || {}`
BuildArgs(args) == IF Truthy(args) THEN args ELSE EmptyObject

\* one controller made on the first call and handed to every later call
SharedAbortController(heap) ==
    IF heap = <<>> THEN Append(heap, [aborted |-> FALSE]) ELSE heap

\* `new AbortController()`: the heap of controllers after the allocation;
\* the new controller is the last one and is not aborted
NewAbortController(heap) == Append(heap, [aborted |-> FALSE])

\* what the environment did to a call: where (build, execute, settle),
\* how (throw, resolve, reject) and with which value
Outcome(phase, kind, value) == [phase |-> phase, kind |-> kind, value |-> value]
Pending == Outcome("pending", "pending", Undefined)

\* The transport delivers call c: a request for endpoint e with args a.  The
\* callback runs tool.build and invocation.execute and stops at its await,
\* or either throws and the catch block answers.  Calls are numbered in the
\* order of their arrival.
CallTool(c) ==
    /\ connected
    /\ calls[c].st = "idle"
    /\ IF c = 1 THEN TRUE ELSE calls[c - 1].st # "idle"
    /\ \E e \in 1..Len(endpoints), a \in Args :
         LET build == [tool |-> endpoints[e].tool, args |-> BuildArgs(a)]
             heap == NewAbortController(signals)
             call == [st |-> "awaiting", endpoint |-> e, args |-> a,
                      builds |-> <<build>>, execs |-> <<>>,
                      outcome |-> Pending, completion |-> <<>>]
         IN  \/ \E v \in BuildThrows :
                  /\ calls' = [calls EXCEPT ![c] =
                        [call EXCEPT !.st = "finished",
                                     !.outcome = Outcome("build", "throw", v),
                                     !.completion = <<OnCatch(v)>>]]
                  /\ UNCHANGED signals
             \/ \E v \in ExecuteThrows :
                  /\ calls' = [calls EXCEPT ![c] =
                        [call EXCEPT !.st = "finished",
                                     !.execs = <<Len(heap)>>,
                                     !.outcome = Outcome("execute", "throw", v),
                                     !.completion = <<OnCatch(v)>>]]
                  /\ signals' = heap
             \/ /\ calls' = [calls EXCEPT ![c] =
                        [call EXCEPT !.execs = <<Len(heap)>>]]
                /\ signals' = heap
    /\ UNCHANGED <<pc, tools, version, serverInfo, i, endpoints, stderr,
                   connected, steps>>

\* The promise call c awaits settles: the callback resumes and answers.
Settle(c) ==
    /\ calls[c].st = "awaiting"
    /\ \/ \E r \in Results :
            calls' = [calls EXCEPT ![c] =
                [@ EXCEPT !.st = "finished",
                          !.outcome = Outcome("settle", "resolve", r),
                          !.completion = <<OnResult(r)>>]]
       \/ \E v \in Rejections :
            calls' = [calls EXCEPT ![c] =
                [@ EXCEPT !.st = "finished",
                          !.outcome = Outcome("settle", "reject", v),
                          !.completion = <<OnCatch(v)>>]]
    /\ UNCHANGED <<pc, tools, version, serverInfo, i, endpoints, stderr,
                   connected, steps, signals>>

Next ==
    \/ LoadSettings
    \/ LoadCliConfig
    \/ CreateToolRegistry
    \/ GetVersion
    \/ NewServer
    \/ RegisterTool
    \/ Connect
    \/ \E c \in 1..MaxCalls : CallTool(c)
    \/ \E c \in 1..MaxCalls : Settle(c)

Spec == Init /\ [][Next]_vars

----------------------------------------------------------------------------
(* Properties *)

Started(c) == calls[c].st # "idle"
Finished(c) == calls[c].st = "finished"
Calls == 1..MaxCalls

\* sub occurs in s
Contains(s, sub) ==
    \E k \in 0..(Len(s) - Len(sub)) : SubSeq(s, k + 1, k + Len(sub)) = sub

\* s is an initial part of t
IsPrefix(s, t) == Len(s) <= Len(t) /\ SubSeq(t, 1, Len(s)) = s

\* the tool resolved to a Result that carries no error
Succeeded(c) ==
    /\ Finished(c)
    /\ calls[c].outcome.kind = "resolve"
    /\ ~Truthy(Get(calls[c].outcome.value, <<"e", "r", "r", "o", "r">>))

\* the tool resolved to a Result that carries an error
ReportedError(c) ==
    /\ Finished(c)
    /\ calls[c].outcome.kind = "resolve"
    /\ Truthy(Get(calls[c].outcome.value, <<"e", "r", "r", "o", "r">>))

\* tool.build or invocation.execute threw, or the promise rejected
Threw(c) ==
    /\ Finished(c)
    /\ calls[c].outcome.kind \in {"throw", "reject"}

\* C1: once the startup handler has completed, every registry tool has an
\* endpoint of its name, registered exactly once, and every endpoint has the
\* name of a registry tool.
C1_EndpointPerTool ==
    pc = "done" =>
        /\ \A k \in 1..Len(tools) :
             Cardinality({n \in 1..Len(endpoints) :
                             endpoints[n].name = tools[k].name}) = 1
        /\ \A n \in 1..Len(endpoints) :
             \E k \in 1..Len(tools) : tools[k].name = endpoints[n].name

C1_Witness == pc = "done" /\ Len(tools) = 2 /\ Len(endpoints) = 2

\* C2: a call whose tool resolves to a Result without an error is answered
\* { content: [{ type: 'text', text }] } without isError, text being
\* llmContent itself when it is a string and JSON.stringify(llmContent)
\* otherwise: "hello" gives hello, { a: 1 } gives {"a":1}.
C2_SuccessText ==
    \A c \in Calls : Succeeded(c) =>
        LET llm == Get(calls[c].outcome.value, <<"l", "l", "m", "C", "o", "n", "t", "e", "n", "t">>)
            done == calls[c].completion[1]
        IN  /\ done.kind = "return"
            /\ DOMAIN done.value = {"content"}
            /\ Len(done.value.content) = 1
            /\ done.value.content[1].type = "text"
            /\ done.value.content[1].text =
                  (IF llm.t = "string" THEN llm ELSE JSONstringify(llm))
            /\ llm = Str(<<"h", "e", "l", "l", "o">>) =>
                  done.value.content[1].text = Str(<<"h", "e", "l", "l", "o">>)
            /\ llm = Obj(<< <<<<"a">>, Num(1)>> >>) =>
                  done.value.content[1].text = Str(<<"{", "\"", "a", "\"", ":", "1", "}">>)
            /\ llm.t = "array" =>
                  done.value.content[1].text = Str(<<"[", "{", "\"", "t", "e", "x", "t", "\"", ":", "\"", "s", "a", "y", " ", "\\", "\"", "h", "i", "\\", "\"", "\"", "}", "]">>)

C2_Witness ==
    /\ Succeeded(1)
    /\ Get(calls[1].outcome.value, <<"l", "l", "m", "C", "o", "n", "t", "e", "n", "t">>) = Str(<<"h", "e", "l", "l", "o">>)
    /\ Succeeded(2)
    /\ Get(calls[2].outcome.value, <<"l", "l", "m", "C", "o", "n", "t", "e", "n", "t">>) = Obj(<< <<<<"a">>, Num(1)>> >>)

\* C3: a call whose tool Result carries an error with message m is answered
\* exactly { content: [{ type: 'text', text: 'Error: ' + m }], isError: true },
\* whatever llmContent the Result has, and it is answered once.
C3_ReportedError ==
    \A c \in Calls : ReportedError(c) =>
        LET m == Get(Get(calls[c].outcome.value, <<"e", "r", "r", "o", "r">>), <<"m", "e", "s", "s", "a", "g", "e">>)
        IN  /\ m = Str(<<"b", "a", "d", " ", "i", "n", "p", "u", "t">>)
            /\ calls[c].completion =
                 << [kind |-> "return",
                     value |-> [content |-> <<[type |-> "text",
                                               text |-> Str(<<"E", "r", "r", "o", "r", ":", " ", "b", "a", "d", " ", "i", "n", "p", "u", "t">>)]>>,
                                isError |-> TRUE]] >>

C3_Witness ==
    /\ ReportedError(1)
    /\ Get(calls[1].outcome.value, <<"l", "l", "m", "C", "o", "n", "t", "e", "n", "t">>) = Str(<<"p", "a", "r", "t", "i", "a", "l">>)
    /\ ReportedError(2)
    /\ Get(calls[2].outcome.value, <<"l", "l", "m", "C", "o", "n", "t", "e", "n", "t">>) = Undefined

\* the message the catch-all is said to extract: the thrown value's message
\* if it carries one, else its textual representation
CarriedMessage(v) ==
    IF Get(v, <<"m", "e", "s", "s", "a", "g", "e">>).t = "string" THEN Get(v, <<"m", "e", "s", "s", "a", "g", "e">>).v
    ELSE String(v).value.v

\* C4: when tool.build or invocation.execute throws or rejects with any
\* value, the callback does not throw: it returns the isError response whose
\* text is 'Internal Error: ' followed by the value's message if it carries
\* one and by its textual representation otherwise.
C4_CatchAll ==
    \A c \in Calls : Threw(c) =>
        /\ calls[c].completion[1].kind = "return"
        /\ calls[c].completion[1].value =
             [content |-> <<[type |-> "text",
                             text |-> Str(<<"I", "n", "t", "e", "r", "n", "a", "l", " ", "E", "r", "r", "o", "r", ":", " ">>
                                          \o CarriedMessage(calls[c].outcome.value))]>>,
              isError |-> TRUE]

\* C5 as stated: with an empty registry startup completes with no endpoint
\* and nothing at all written to the error stream.
C5_NoDiagnosticLine ==
    (pc = "done" /\ tools = <<>>) =>
        /\ connected
        /\ endpoints = <<>>
        /\ stderr = <<>>

\* C5, amended: with an empty registry no endpoint is registered and no
\* per-tool line is written; a completed startup is connected and has written
\* exactly one line, the closing "server started" line, and nothing is
\* written before that.
C5_OnlyStartedLine ==
    (Len(steps) >= 3 /\ tools = <<>>) =>
        /\ endpoints = <<>>
        /\ \A n \in 1..Len(stderr) :
             ~IsPrefix(<<"R", "e", "g", "i", "s", "t", "e", "r", "i", "n", "g", " ", "M", "C", "P", " ", "t", "o", "o", "l", ":", " ">>, stderr[n])
        /\ pc = "done" =>
             /\ connected
             /\ stderr = << <<"C", "l", "a", "u", "d", "e", " ", "C", "o", "d", "e", " ", "G", "e", "m", "i", "n", "i", " ", "C", "L", "I", " ", "M", "C", "P", " ", "s", "e", "r", "v", "e", "r", " ", "s", "t", "a", "r", "t", "e", "d", " ", "o", "n", " ", "s", "t", "d", "i", "o">> >>
        /\ pc # "done" => stderr = <<>>

C5_Witness == pc = "done" /\ tools = <<>> /\ connected /\ Len(steps) = 6

\* C6: the endpoint registered for a tool has the tool's description when
\* that is a non-empty string, and otherwise a generated default that
\* contains the tool's name; its input schema is the empty object.
C6_Metadata ==
    \A n \in 1..Len(endpoints) :
        LET T == tools[n]
            e == endpoints[n]
        IN  /\ e.name = T.name
            /\ IF T.description.t = "string" /\ T.description.v # <<>>
               THEN e.description = T.description
               ELSE /\ e.description.t = "string"
                    /\ Contains(e.description.v, T.name)
                    /\ e.description.v =
                         <<"C", "l", "a", "u", "d", "e", " ", "C", "o", "d", "e", " ", "G", "e", "m", "i", "n", "i", " ", "C", "L", "I", " ">> \o T.name \o <<" ", "t", "o", "o", "l">>
            /\ e.inputSchema = Obj(<<>>)

C6_Witness ==
    /\ Len(endpoints) = 2
    /\ tools[1].description = Str(<<>>)
    /\ tools[2].description = Str(<<"L", "i", "s", "t", " ", "f", "i", "l", "e", "s">>)
    /\ endpoints[1].description = Str(<<"C", "l", "a", "u", "d", "e", " ", "C", "o", "d", "e", " ", "G", "e", "m", "i", "n", "i", " ", "C", "L", "I", " ", "c", "a", "t", " ", "t", "o", "o", "l">>)

\* C7: every value the callback returns is { content: [one element of type
\* 'text' whose text is a string] } with isError absent or true, and isError
\* is true exactly when the tool reported an error or an exception was
\* caught.
C7_ResponseShape ==
    \A c \in Calls :
        (Finished(c) /\ calls[c].completion[1].kind = "return") =>
            LET r == calls[c].completion[1].value
            IN  /\ "content" \in DOMAIN r
                /\ DOMAIN r \subseteq {"content", "isError"}
                /\ Len(r.content) = 1
                /\ r.content[1].type = "text"
                /\ r.content[1].text.t = "string"
                /\ "isError" \in DOMAIN r => r.isError = TRUE
                /\ "isError" \in DOMAIN r <=> (ReportedError(c) \/ Threw(c))

\* what the code answers to an outcome, taken alone
Answer(o) == IF o.kind = "resolve" THEN OnResult(o.value) ELSE OnCatch(o.value)

\* a call's record shows the tool its endpoint is named after run on the
\* call's own args and, once finished, the answer to the call's own outcome
OwnOutcome(call) ==
    /\ call.st # "idle" =>
         /\ tools[call.builds[1].tool].name = endpoints[call.endpoint].name
         /\ call.builds[1].args = BuildArgs(call.args)
    /\ call.st = "finished" => call.completion = <<Answer(call.outcome)>>

\* C8: under any interleaving of calls, a call is answered from its own
\* tool's outcome for its own args: every step of a call leaves that call
\* consistent with its own outcome and changes no other call's record, a
\* finished call's answer never changes, and no step changes the registered
\* endpoints once the server serves.
C8_Isolation ==
    [][ /\ \A c \in Calls :
             calls'[c] # calls[c] =>
                 /\ OwnOutcome(calls'[c])
                 /\ \A d \in Calls \ {c} : calls'[d] = calls[d]
        /\ connected => endpoints' = endpoints
        /\ \A c \in Calls : Finished(c) => calls'[c] = calls[c] ]_vars

C8_Witness ==
    /\ calls[1].st = "awaiting"
    /\ Threw(2)
    /\ calls[1].endpoint # calls[2].endpoint

\* C9 as stated: every call builds once with its args ({} when absent) and
\* executes once with a signal of its own that is never aborted.
C9_BuildAndExecuteOnce ==
    \A c \in Calls : Started(c) =>
        /\ Len(calls[c].builds) = 1
        /\ calls[c].builds[1].args =
              (IF calls[c].args = Undefined THEN Obj(<<>>) ELSE calls[c].args)
        /\ Len(calls[c].execs) = 1
        /\ signals[calls[c].execs[1]].aborted = FALSE
        /\ \A d \in Calls :
             (d # c /\ Started(d) /\ calls[d].execs # <<>>) =>
                 calls[d].execs[1] # calls[c].execs[1]

\* C9, amended: every call calls tool.build once with its args ({} when
\* absent); if build returns, the invocation is executed once with a signal
\* created for that call, and if build throws nothing is executed; no signal
\* is ever aborted or passed to two calls.
C9_ExecuteOnceIfBuilt ==
    /\ \A c \in Calls : Started(c) =>
        /\ Len(calls[c].builds) = 1
        /\ calls[c].builds[1].args =
              (IF calls[c].args = Undefined THEN Obj(<<>>) ELSE calls[c].args)
        /\ IF calls[c].outcome.phase = "build"
           THEN calls[c].execs = <<>>
           ELSE /\ Len(calls[c].execs) = 1
                /\ calls[c].execs[1] \in 1..Len(signals)
                /\ \A d \in Calls :
                     (d # c /\ Started(d) /\ calls[d].execs # <<>>) =>
                         calls[d].execs[1] # calls[c].execs[1]
    /\ \A k \in 1..Len(signals) : signals[k].aborted = FALSE

C9_Witness ==
    /\ calls[1].st = "awaiting"
    /\ calls[1].args = Undefined
    /\ calls[1].execs = <<1>>
    /\ Finished(2)
    /\ calls[2].outcome.phase = "build"
    /\ calls[2].execs = <<>>

\* the order of the handler's statements for a registry ts
HandlerOrder(ts) ==
    << Step("loadSettings", 0), Step("loadCliConfig", 0),
       Step("createToolRegistry", 0), Step("getVersion", 0),
       Step("newServer", 0) >>
    \o [k \in 1..Len(ts) |-> Step("register", k)]
    \o << Step("connect", 0) >>

C10_Ordered ==
    /\ IsPrefix(steps, HandlerOrder(tools))
    /\ connected =>
         /\ steps = HandlerOrder(tools)
         /\ Len(endpoints) = Len(tools)
         /\ \A k \in 1..Len(tools) : endpoints[k].name = tools[k].name
    /\ pc = "failed" => (~connected /\ \A c \in Calls : ~Started(c))
    /\ (\E c \in Calls : Started(c)) =>
         (connected /\ Len(endpoints) = Len(tools))

\* C10: the handler's statements run in program order, the tools being
\* registered in registry order before connect; a throw before connect ends
\* the handler for good, with the transport not connected and no call served;
\* calls are served only once every tool is registered.
C10_StartupOrder ==
    [][ /\ C10_Ordered'
        /\ pc = "failed" => pc' = "failed" ]_vars

C10_Witness ==
    /\ pc = "failed"
    /\ Len(tools) = 2
    /\ Len(endpoints) = 1
    /\ Len(stderr) = 2

====
